---- MODULE Spec2Model ----
(***************************************************************************)
(* The bespoke text-rewriting code of the notebook task2.ipynb:            *)
(*   - convert_to_msa: the dialect normalizer (str.replace per key of the  *)
(*     module-level dialect_mapping, in the dict's order);                 *)
(*   - the abbreviation cell: module-level statements that rewrite the     *)
(*     module-level variable text_with_abbrev with re.sub, one pass per    *)
(*     key of abbreviations;                                               *)
(*   - preprocess_for_sentiment: the character-set cleaner.                *)
(* A string is a sequence of Unicode code points.  A Python value that may *)
(* be None is a record [none, s].  An ordered dict is a sequence of        *)
(* <<key, value>> pairs with distinct keys.                                *)
(***************************************************************************)
EXTENDS Integers, Sequences, FiniteSets

VARIABLES
    dialect_mapping,   \* module-level dict of the dialect cell
    abbreviations,     \* module-level dict of the abbreviation cell
    text_with_abbrev,  \* module-level variable the abbreviation cell rewrites
    abbrev,            \* module-level loop variable of the abbreviation cell
    full_form,         \* module-level loop variable of the abbreviation cell
    frame              \* per caller: the operation it runs and its own locals

vars == <<dialect_mapping, abbreviations, text_with_abbrev, abbrev, full_form, frame>>

globals == <<dialect_mapping, abbreviations, text_with_abbrev, abbrev, full_form>>

Callers == {1, 2}

----------------------------------------------------------------------------
(* Bounds of the checked input sets *)

MaxLen == 4

MaxEntries == 2

MaxCleanLen == 3

MaxPieces == 2

MaxConcLen == 1

----------------------------------------------------------------------------
(* Python values *)

NoneVal == [none |-> TRUE, s |-> <<>>]

Str(s) == [none |-> FALSE, s |-> s]

TextsOver(A, n) == UNION {[1..k -> A] : k \in 0..n}

Key(e) == e[1]

Val(e) == e[2]

----------------------------------------------------------------------------
(* The literals of the notebook *)

\* dialect_mapping = { "عايز": "أريد", "فين": "أين", "هاروح": "سأذهب",
\*                     "كده": "بهذه الطريقة", "حاجة": "شيء" }
ShippedDialectMapping ==
    << << <<1593, 1575, 1610, 1586>>, <<1571, 1585, 1610, 1583>> >>,
       << <<1601, 1610, 1606>>, <<1571, 1610, 1606>> >>,
       << <<1607, 1575, 1585, 1608, 1581>>, <<1587, 1571, 1584, 1607, 1576>> >>,
       << <<1603, 1583, 1607>>,
          <<1576, 1607, 1584, 1607, 32, 1575, 1604, 1591, 1585, 1610, 1602, 1577>> >>,
       << <<1581, 1575, 1580, 1577>>, <<1588, 1610, 1569>> >> >>

\* abbreviations = { "ASAP": "as soon as possible", "I'm": "I am" }
ShippedAbbreviations ==
    << << <<65, 83, 65, 80>>,
          <<97, 115, 32, 115, 111, 111, 110, 32, 97, 115, 32, 112, 111, 115, 115,
            105, 98, 108, 101>> >>,
       << <<73, 39, 109>>, <<73, 32, 97, 109>> >> >>

\* egyptian_arabic_text = "أنا عايز أروح فين؟"
SampleEgyptianText ==
    <<1571, 1606, 1575, 32, 1593, 1575, 1610, 1586, 32, 1571, 1585, 1608, 1581,
      32, 1601, 1610, 1606, 1567>>

\* text_with_abbrev = "I'm going to the gym ASAP"
SampleAbbrevText ==
    <<73, 39, 109, 32, 103, 111, 105, 110, 103, 32, 116, 111, 32, 116, 104, 101,
      32, 103, 121, 109, 32, 65, 83, 65, 80>>

\* multilingual_text = "I love programming! أحب البرمجة!"
SampleMultilingualText ==
    <<73, 32, 108, 111, 118, 101, 32, 112, 114, 111, 103, 114, 97, 109, 109, 105,
      110, 103, 33, 32, 1571, 1581, 1576, 32, 1575, 1604, 1576, 1585, 1605, 1580,
      1577, 33>>

----------------------------------------------------------------------------
(* str.replace(old, new): left to right, non-overlapping; an empty old      *)
(* matches before every character and at the end.                           *)

OccursAt(s, old, i) ==
    /\ i >= 1
    /\ i + Len(old) - 1 <= Len(s)
    /\ \A j \in 1..Len(old) : s[i + j - 1] = old[j]

RECURSIVE ReplaceFrom(_, _, _, _)
ReplaceFrom(s, old, new, i) ==
    IF i > Len(s) THEN (IF old = <<>> THEN new ELSE <<>>)
    ELSE IF old = <<>> THEN new \o <<s[i]>> \o ReplaceFrom(s, old, new, i + 1)
    ELSE IF OccursAt(s, old, i) THEN new \o ReplaceFrom(s, old, new, i + Len(old))
    ELSE <<s[i]>> \o ReplaceFrom(s, old, new, i + 1)

ToLower(c) == IF c \in 65..90 THEN c + 32 ELSE c

StrReplaceFirstOnly(s, old, new) ==
    IF old # <<>> /\ \E i \in 1..Len(s) : OccursAt(s, old, i)
    THEN LET i == CHOOSE k \in 1..Len(s) :
                     /\ OccursAt(s, old, k)
                     /\ \A m \in 1..(k - 1) : ~OccursAt(s, old, m)
         IN  SubSeq(s, 1, i - 1) \o new \o SubSeq(s, i + Len(old), Len(s))
    ELSE s

StrReplaceLower(s, old, new) ==
    ReplaceFrom([k \in 1..Len(s) |-> ToLower(s[k])], old, new, 1)

StrReplace(s, old, new) == ReplaceFrom(s, old, new, 1)

----------------------------------------------------------------------------
(* re.sub(r'\b' + abbrev + r'\b', full_form, text).  The key is pasted into *)
(* the pattern unescaped: a letter, digit, apostrophe or space of the key   *)
(* stands for itself, "." for any character but a line feed.  The keys     *)
(* drawn below use no other pattern syntax, and the expansions hold no      *)
(* backslash, so the replacement template is literal.                       *)

\* \w of a str pattern, over the code points the texts below are made of:
\* ASCII letters and digits, the underscore, the Arabic letters U+0621..U+064A
IsWordChar(c) ==
    \/ c \in 48..57
    \/ c \in 65..90
    \/ c \in 97..122
    \/ c = 95
    \/ c \in 1569..1610

\* \b at the gap after position p (0 is the start, Len(s) the end)
AtBoundary(s, p) ==
    LET l == p >= 1 /\ IsWordChar(s[p])
        r == p < Len(s) /\ IsWordChar(s[p + 1])
    IN  l # r

ElemMatches(pat, c) == IF pat = 46 THEN c # 10 ELSE pat = c

PatternMatchesAt(s, key, i) ==
    /\ AtBoundary(s, i - 1)
    /\ i + Len(key) - 1 <= Len(s)
    /\ \A j \in 1..Len(key) : ElemMatches(key[j], s[i + j - 1])
    /\ AtBoundary(s, i + Len(key) - 1)

RECURSIVE SubFrom(_, _, _, _)
SubFrom(s, key, repl, i) ==
    IF i > Len(s) + 1 THEN <<>>
    ELSE LET here == IF i <= Len(s) THEN <<s[i]>> ELSE <<>>
         IN  IF PatternMatchesAt(s, key, i)
             THEN IF key = <<>>
                  THEN repl \o here \o SubFrom(s, key, repl, i + 1)
                  ELSE repl \o SubFrom(s, key, repl, i + Len(key))
             ELSE here \o SubFrom(s, key, repl, i + 1)

ReSubWordBounded(s, key, repl) == SubFrom(s, key, repl, 1)

----------------------------------------------------------------------------
(* re.sub(r'[^A-Za-z0-9أ-ي ]+', '', text)                                  *)

InClassFromHamza(c) ==
    \/ c \in 65..90
    \/ c \in 97..122
    \/ c \in 48..57
    \/ c \in 1569..1610
    \/ c = 32

\* the characters the negated class [^A-Za-z0-9أ-ي ] does not match
InClass(c) ==
    \/ c \in 65..90
    \/ c \in 97..122
    \/ c \in 48..57
    \/ c \in 1571..1610
    \/ c = 32

\* where the greedy run of class-excluded characters starting at i ends
RECURSIVE RunEnd(_, _)
RunEnd(s, i) ==
    IF i <= Len(s) /\ ~InClass(s[i]) THEN RunEnd(s, i + 1) ELSE i

RECURSIVE SubRunsFrom(_, _)
SubRunsFrom(s, i) ==
    IF i > Len(s) THEN <<>>
    ELSE IF ~InClass(s[i]) THEN SubRunsFrom(s, RunEnd(s, i))
    ELSE <<s[i]>> \o SubRunsFrom(s, i + 1)

\* the same substitution with count=1 and no "+": only the first excluded
\* character goes
SubFirstExcludedOnly(text) ==
    IF \E i \in 1..Len(text) : ~InClass(text[i])
    THEN LET i == CHOOSE k \in 1..Len(text) :
                     /\ ~InClass(text[k])
                     /\ \A m \in 1..(k - 1) : InClass(text[m])
         IN  SubSeq(text, 1, i - 1) \o SubSeq(text, i + 1, Len(text))
    ELSE text

preprocess_for_sentiment(text) == SubRunsFrom(text, 1)

----------------------------------------------------------------------------
(* The whole functions, as one call run alone computes them *)

RECURSIVE MsaFrom(_, _, _)
MsaFrom(text, mapping, i) ==
    IF i > Len(mapping) THEN text
    ELSE MsaFrom(StrReplace(text, Key(mapping[i]), Val(mapping[i])), mapping, i + 1)

convert_to_msa(text, mapping) == MsaFrom(text, mapping, 1)

RECURSIVE ExpandFrom(_, _, _)
ExpandFrom(text, mapping, i) ==
    IF i > Len(mapping) THEN text
    ELSE ExpandFrom(ReSubWordBounded(text, Key(mapping[i]), Val(mapping[i])),
                    mapping, i + 1)

expand_abbreviations(text, mapping) == ExpandFrom(text, mapping, 1)

----------------------------------------------------------------------------
(* Callers and their frames.  op is what the caller runs: "msa" a call of   *)
(* convert_to_msa, "abbrev" a run of the abbreviation cell, "clean" a call  *)
(* of preprocess_for_sentiment.  text is the parameter/local of a function  *)
(* call, it the position of the caller's own dict iterator, tmp the value   *)
(* of an evaluated right-hand side not yet stored.                          *)

IdleFrame ==
    [op |-> "none", pc |-> "idle", arg |-> NoneVal, text |-> NoneVal, it |-> 0,
     tmp |-> NoneVal, ret |-> NoneVal, exc |-> "none"]

NewFrame(op, arg) == [IdleFrame EXCEPT !.op = op, !.pc = "start", !.arg = arg]

\* def convert_to_msa(text): the argument is bound to the local text
MsaCall(c) ==
    /\ frame[c].op = "msa"
    /\ frame[c].pc = "start"
    /\ frame' = [frame EXCEPT ![c].text = frame[c].arg, ![c].it = 1, ![c].pc = "loop"]
    /\ UNCHANGED globals

\* a variant that keeps its working text in the module-level variable
MsaIterSharedText(c) ==
    /\ frame[c].op = "msa"
    /\ frame[c].pc = "loop"
    /\ frame[c].it <= Len(dialect_mapping)
    /\ LET e == dialect_mapping[frame[c].it]
           cur == IF frame[c].it = 1 THEN frame[c].text ELSE text_with_abbrev
       IN  IF cur.none
           THEN /\ frame' = [frame EXCEPT ![c].pc = "raised", ![c].exc = "AttributeError"]
                /\ UNCHANGED text_with_abbrev
           ELSE /\ text_with_abbrev' = Str(StrReplace(cur.s, Key(e), Val(e)))
                /\ frame' = [frame EXCEPT ![c].text = text_with_abbrev',
                                          ![c].it = frame[c].it + 1]
    /\ UNCHANGED <<dialect_mapping, abbreviations, abbrev, full_form>>

\* a variant whose every pass rewrites the original argument
MsaIterOnOriginal(c) ==
    /\ frame[c].op = "msa"
    /\ frame[c].pc = "loop"
    /\ frame[c].it <= Len(dialect_mapping)
    /\ LET e == dialect_mapping[frame[c].it]
       IN  IF frame[c].arg.none
           THEN frame' = [frame EXCEPT ![c].pc = "raised", ![c].exc = "AttributeError"]
           ELSE frame' = [frame EXCEPT
                              ![c].text = Str(StrReplace(frame[c].arg.s, Key(e), Val(e))),
                              ![c].it = frame[c].it + 1]
    /\ UNCHANGED globals

\* one iteration: text = text.replace(egyptian_word, msa_word)
MsaIter(c) ==
    /\ frame[c].op = "msa"
    /\ frame[c].pc = "loop"
    /\ frame[c].it <= Len(dialect_mapping)
    /\ LET e == dialect_mapping[frame[c].it]
       IN  IF frame[c].text.none
           THEN frame' = [frame EXCEPT ![c].pc = "raised", ![c].exc = "AttributeError"]
           ELSE frame' = [frame EXCEPT
                              ![c].text = Str(StrReplace(frame[c].text.s, Key(e), Val(e))),
                              ![c].it = frame[c].it + 1]
    /\ UNCHANGED globals

\* return text
MsaReturn(c) ==
    /\ frame[c].op = "msa"
    /\ frame[c].pc = "loop"
    /\ frame[c].it > Len(dialect_mapping)
    /\ frame' = [frame EXCEPT ![c].ret = frame[c].text, ![c].pc = "done"]
    /\ UNCHANGED globals

\* text_with_abbrev = <the text to expand>
AbbrevAssign(c) ==
    /\ frame[c].op = "abbrev"
    /\ frame[c].pc = "start"
    /\ text_with_abbrev' = frame[c].arg
    /\ frame' = [frame EXCEPT ![c].it = 1, ![c].pc = "next"]
    /\ UNCHANGED <<dialect_mapping, abbreviations, abbrev, full_form>>

\* for abbrev, full_form in abbreviations.items(): the next item is stored
\* in the two module-level loop variables
AbbrevNext(c) ==
    /\ frame[c].op = "abbrev"
    /\ frame[c].pc = "next"
    /\ frame[c].it <= Len(abbreviations)
    /\ abbrev' = Key(abbreviations[frame[c].it])
    /\ full_form' = Val(abbreviations[frame[c].it])
    /\ frame' = [frame EXCEPT ![c].pc = "eval"]
    /\ UNCHANGED <<dialect_mapping, abbreviations, text_with_abbrev>>

\* the right-hand side re.sub(r'\b' + abbrev + r'\b', full_form, text_with_abbrev)
AbbrevEval(c) ==
    /\ frame[c].op = "abbrev"
    /\ frame[c].pc = "eval"
    /\ IF text_with_abbrev.none
       THEN frame' = [frame EXCEPT ![c].pc = "raised", ![c].exc = "TypeError"]
       ELSE frame' = [frame EXCEPT
                          ![c].tmp = Str(ReSubWordBounded(text_with_abbrev.s, abbrev, full_form)),
                          ![c].pc = "store"]
    /\ UNCHANGED globals

\* text_with_abbrev = <the value of the right-hand side>
AbbrevStore(c) ==
    /\ frame[c].op = "abbrev"
    /\ frame[c].pc = "store"
    /\ text_with_abbrev' = frame[c].tmp
    /\ frame' = [frame EXCEPT ![c].it = frame[c].it + 1, ![c].pc = "next"]
    /\ UNCHANGED <<dialect_mapping, abbreviations, abbrev, full_form>>

\* print("Expanded Text:", text_with_abbrev): the result of the run
AbbrevPrint(c) ==
    /\ frame[c].op = "abbrev"
    /\ frame[c].pc = "next"
    /\ frame[c].it > Len(abbreviations)
    /\ frame' = [frame EXCEPT ![c].ret = text_with_abbrev, ![c].pc = "done"]
    /\ UNCHANGED globals

\* preprocess_for_sentiment(text): cleaned_text = re.sub(...); return cleaned_text
CleanCall(c) ==
    /\ frame[c].op = "clean"
    /\ frame[c].pc = "start"
    /\ IF frame[c].arg.none
       THEN frame' = [frame EXCEPT ![c].pc = "raised", ![c].exc = "TypeError"]
       ELSE frame' = [frame EXCEPT
                          ![c].text = frame[c].arg,
                          ![c].ret = Str(preprocess_for_sentiment(frame[c].arg.s)),
                          ![c].pc = "done"]
    /\ UNCHANGED globals

\* f(f(x)): the value c's call returned is the argument of d's call
ApplyAgain(c, d) ==
    /\ frame[c].pc = "done"
    /\ frame[d].pc = "idle"
    /\ frame' = [frame EXCEPT ![d] = NewFrame(frame[c].op, frame[c].ret)]
    /\ UNCHANGED globals

----------------------------------------------------------------------------
(* Input sets *)

\* "a", "A" and "." : a lower-case letter, its upper-case form, a non-word
\* character that is also pattern syntax
GenericAlphabet == {97, 65, 46}

\* the dict items the generic mappings are built from:
\*   "a" -> "A",  "A" -> "aa",  "aa" -> "a",  "a." -> "A",  ".a" -> "",
\*   and the malformed "" -> "A"
EntryPool ==
    { << <<97>>, <<65>> >>,
      << <<65>>, <<97, 97>> >>,
      << <<97, 97>>, <<97>> >>,
      << <<97, 46>>, <<65>> >>,
      << <<46, 97>>, <<>> >>,
      << <<>>, <<65>> >> }

\* ordered dicts of at most n items with distinct keys
Mappings(n) ==
    {m \in TextsOver(EntryPool, n) :
        \A i, j \in 1..Len(m) : i # j => Key(m[i]) # Key(m[j])}

\* "ASAP", "ASAPX", "asap", "my ASAP", and the notebook's own sample
AbbrevExamples ==
    { <<65, 83, 65, 80>>, <<65, 83, 65, 80, 88>>, <<97, 115, 97, 112>>,
      <<109, 121, 32, 65, 83, 65, 80>>, SampleAbbrevText }

\* line feed, space, "!", "0", "9", "@", "A", "z", the two code points around
\* each end of the Arabic range (U+0622, U+0623, U+064A, U+064B)
CleanAlphabet == {10, 32, 33, 48, 57, 64, 65, 122, 1570, 1571, 1610, 1611}

ShippedKeys == {Key(ShippedDialectMapping[i]) : i \in 1..Len(ShippedDialectMapping)}

ShippedValues == {Val(ShippedDialectMapping[i]) : i \in 1..Len(ShippedDialectMapping)}

\* the proper prefixes and suffixes of the keys: the only neighbours that
\* could complete a key when joined with a replacement
KeyFragments ==
    UNION {{SubSeq(k, 1, n) : n \in 1..(Len(k) - 1)} \cup {SubSeq(k, n, Len(k)) : n \in 2..Len(k)}
           : k \in ShippedKeys}

\* the pieces the texts of the dialect are built from
Pieces == ShippedKeys \cup ShippedValues \cup KeyFragments

RECURSIVE Flatten(_)
Flatten(ps) == IF ps = <<>> THEN <<>> ELSE Head(ps) \o Flatten(Tail(ps))

PieceTexts == {Flatten(ps) : ps \in TextsOver(Pieces, MaxPieces)}

----------------------------------------------------------------------------
(* Specifications *)

InitGlobals ==
    /\ text_with_abbrev = NoneVal
    /\ abbrev = <<>>
    /\ full_form = <<>>

\* one caller, any text (or None) and any mapping of the pool, and the
\* notebook's own samples
Init ==
    /\ InitGlobals
    /\ \/ \E m \in Mappings(MaxEntries),
             a \in {Str(t) : t \in TextsOver(GenericAlphabet, MaxLen)} \cup {NoneVal} :
             \/ /\ dialect_mapping = m
                /\ abbreviations = ShippedAbbreviations
                /\ frame = [c \in Callers |-> IF c = 1 THEN NewFrame("msa", a) ELSE IdleFrame]
             \/ /\ dialect_mapping = ShippedDialectMapping
                /\ abbreviations = m
                /\ frame = [c \in Callers |-> IF c = 1 THEN NewFrame("abbrev", a) ELSE IdleFrame]
       \/ /\ dialect_mapping = ShippedDialectMapping
          /\ abbreviations = ShippedAbbreviations
          /\ \/ \E t \in AbbrevExamples :
                   frame = [c \in Callers |-> IF c = 1 THEN NewFrame("abbrev", Str(t))
                                              ELSE IdleFrame]
             \/ frame = [c \in Callers |-> IF c = 1 THEN NewFrame("msa", Str(SampleEgyptianText))
                                           ELSE IdleFrame]

Next ==
    \E c \in Callers :
        \/ MsaCall(c)
        \/ MsaIter(c)
        \/ MsaReturn(c)
        \/ AbbrevAssign(c)
        \/ AbbrevNext(c)
        \/ AbbrevEval(c)
        \/ AbbrevStore(c)
        \/ AbbrevPrint(c)

Spec == Init /\ [][Next]_vars

\* the cleaner on every text over CleanAlphabet, and on its own output
InitClean ==
    /\ InitGlobals
    /\ dialect_mapping = ShippedDialectMapping
    /\ abbreviations = ShippedAbbreviations
    /\ \E t \in TextsOver(CleanAlphabet, MaxCleanLen) \cup {SampleMultilingualText} :
          frame = [c \in Callers |-> IF c = 1 THEN NewFrame("clean", Str(t)) ELSE IdleFrame]

NextClean ==
    \/ \E c \in Callers : CleanCall(c)
    \/ ApplyAgain(1, 2)

SpecClean == InitClean /\ [][NextClean]_vars

\* convert_to_msa with the notebook's dialect_mapping, and on its own output
InitShipped ==
    /\ InitGlobals
    /\ dialect_mapping = ShippedDialectMapping
    /\ abbreviations = ShippedAbbreviations
    /\ \E t \in PieceTexts \cup {SampleEgyptianText} :
          frame = [c \in Callers |-> IF c = 1 THEN NewFrame("msa", Str(t)) ELSE IdleFrame]

NextShipped ==
    \/ \E c \in Callers :
          \/ MsaCall(c)
          \/ MsaIter(c)
          \/ MsaReturn(c)
    \/ ApplyAgain(1, 2)

SpecShipped == InitShipped /\ [][NextShipped]_vars

\* the two-item dicts of the concurrent runs: "a" -> "A", "A" -> "aa"
ConcMapping == << << <<97>>, <<65>> >>, << <<65>>, <<97, 97>> >> >>

\* two callers, each running any of the three operations, steps interleaved
InitConc ==
    /\ InitGlobals
    /\ dialect_mapping = ConcMapping
    /\ abbreviations = ConcMapping
    /\ \E o1, o2 \in {"msa", "abbrev", "clean"},
          t1, t2 \in TextsOver(GenericAlphabet, MaxConcLen) :
          frame = [c \in Callers |-> IF c = 1 THEN NewFrame(o1, Str(t1))
                                     ELSE NewFrame(o2, Str(t2))]

NextConc ==
    \E c \in Callers :
        \/ MsaCall(c)
        \/ MsaIter(c)
        \/ MsaReturn(c)
        \/ AbbrevAssign(c)
        \/ AbbrevNext(c)
        \/ AbbrevEval(c)
        \/ AbbrevStore(c)
        \/ AbbrevPrint(c)
        \/ CleanCall(c)

SpecConc == InitConc /\ [][NextConc]_vars

----------------------------------------------------------------------------
(* Properties of the character-set cleaner, under SpecClean *)

\* A-Z, a-z, 0-9, the space, U+0623..U+064A
AllowedChar(ch) ==
    \/ ch \in 65..90
    \/ ch \in 97..122
    \/ ch \in 48..57
    \/ ch = 32
    \/ ch \in 1571..1610

Returned(c, op) == frame[c].op = op /\ frame[c].pc = "done"

C6_CleanerIdempotent ==
    (Returned(1, "clean") /\ Returned(2, "clean") /\ frame[2].arg = frame[1].ret)
        => frame[2].ret = frame[1].ret

\* the second cleaning has returned, and the first one had deleted something
\* and kept something
C6_Witness ==
    /\ Returned(1, "clean")
    /\ Returned(2, "clean")
    /\ frame[2].arg = frame[1].ret
    /\ frame[1].ret # frame[1].arg
    /\ frame[1].ret # Str(<<>>)

\* C9: the output of preprocess_for_sentiment holds no special character and
\* no decimal digit (only letters and spaces are left).
C9_OutputHasNoSpecialNoDigit ==
    \A c \in Callers :
        Returned(c, "clean") =>
            \A i \in 1..Len(frame[c].ret.s) :
                LET ch == frame[c].ret.s[i]
                IN  /\ ch \notin 48..57
                    /\ \/ ch \in 65..90
                       \/ ch \in 97..122
                       \/ ch \in 1571..1610
                       \/ ch = 32

----------------------------------------------------------------------------
(* Properties of convert_to_msa with the notebook's mapping, under SpecShipped *)

Contains(s, k) == \E i \in 1..(Len(s) - Len(k) + 1) : SubSeq(s, i, i + Len(k) - 1) = k

\* C10: with the five-entry dialect_mapping of the notebook, the output of
\* convert_to_msa(T) contains no occurrence of any key of dialect_mapping,
\* and convert_to_msa(convert_to_msa(T)) = convert_to_msa(T).
C10_ShippedOutputHasNoKey ==
    /\ \A c \in Callers :
          Returned(c, "msa") =>
              \A i \in 1..Len(dialect_mapping) :
                  ~Contains(frame[c].ret.s, Key(dialect_mapping[i]))
    /\ (Returned(1, "msa") /\ Returned(2, "msa") /\ frame[2].arg = frame[1].ret)
          => frame[2].ret = frame[1].ret

\* both calls have returned for a text made of two different keys side by side
C10_Witness ==
    /\ Returned(1, "msa")
    /\ Returned(2, "msa")
    /\ frame[2].arg = frame[1].ret
    /\ \E i, j \in 1..Len(dialect_mapping) :
          /\ i # j
          /\ frame[1].arg = Str(Key(dialect_mapping[i]) \o Key(dialect_mapping[j]))
    /\ frame[1].ret # frame[1].arg

----------------------------------------------------------------------------
(* Properties of the dialect normalizer and the abbreviation expander for   *)
(* any mapping, under Spec                                                  *)

NonEmptyKeys(m) == \A i \in 1..Len(m) : Key(m[i]) # <<>>

\* the mapping the caller's operation reads
MappingOf(c) == IF frame[c].op = "msa" THEN dialect_mapping ELSE abbreviations

FirstOccurrence(s, k) ==
    CHOOSE p \in 1..Len(s) :
        /\ SubSeq(s, p, p + Len(k) - 1) = k
        /\ \A q \in 1..(p - 1) : SubSeq(s, q, q + Len(k) - 1) # k

\* every non-overlapping occurrence of k, taken left to right, replaced by v
RECURSIVE ReplacedEverywhere(_, _, _)
ReplacedEverywhere(s, k, v) ==
    IF ~Contains(s, k) THEN s
    ELSE LET p == FirstOccurrence(s, k)
         IN  SubSeq(s, 1, p - 1) \o v
                 \o ReplacedEverywhere(SubSeq(s, p + Len(k), Len(s)), k, v)

\* the text after the first n keys of m, each applied to the text the
\* earlier ones produced
RECURSIVE FoldedOver(_, _, _)
FoldedOver(s, m, n) ==
    IF n = 0 THEN s
    ELSE ReplacedEverywhere(FoldedOver(s, m, n - 1), Key(m[n]), Val(m[n]))

\* C2: for every text and every ordered mapping with non-empty keys,
\* convert_to_msa returns the fold over the keys in the mapping's order, each
\* step replacing left to right every non-overlapping plain-substring
\* occurrence of the key in the already rewritten text by its value; there is
\* no word-boundary check and a later key works on what earlier keys produced.
C2_NormalizerIsOrderedFold ==
    \A c \in Callers :
        (frame[c].op = "msa" /\ ~frame[c].arg.none /\ NonEmptyKeys(dialect_mapping)) =>
            /\ frame[c].pc = "loop" =>
                  frame[c].text = Str(FoldedOver(frame[c].arg.s, dialect_mapping,
                                                 frame[c].it - 1))
            /\ frame[c].pc = "done" =>
                  frame[c].ret = Str(FoldedOver(frame[c].arg.s, dialect_mapping,
                                                Len(dialect_mapping)))

\* "aAa" under {"a": "A", "A": "aa"}: the second key rewrote the "A"s the
\* first key produced, and an "A" inside a longer word, giving "aaaaaa"
C2_Witness ==
    /\ Returned(1, "msa")
    /\ dialect_mapping = << << <<97>>, <<65>> >>, << <<65>>, <<97, 97>> >> >>
    /\ frame[1].arg = Str(<<97, 65, 97>>)
    /\ frame[1].ret = Str(<<97, 97, 97, 97, 97, 97>>)

\* an occurrence of the key that has no word character right before it and
\* none right after it
BoundedOccurrenceAt(s, k, p) ==
    /\ p >= 1
    /\ p + Len(k) - 1 <= Len(s)
    /\ SubSeq(s, p, p + Len(k) - 1) = k
    /\ (p = 1 \/ ~IsWordChar(s[p - 1]))
    /\ (p + Len(k) - 1 = Len(s) \/ ~IsWordChar(s[p + Len(k)]))

RECURSIVE WholeWordsReplacedFrom(_, _, _, _)
WholeWordsReplacedFrom(s, k, v, p) ==
    IF p > Len(s) THEN <<>>
    ELSE IF BoundedOccurrenceAt(s, k, p)
         THEN v \o WholeWordsReplacedFrom(s, k, v, p + Len(k))
         ELSE <<s[p]>> \o WholeWordsReplacedFrom(s, k, v, p + 1)

\* C3: in the abbreviation expander, for any non-empty key, whatever its
\* first and last characters, the pass for that key replaces by the expansion
\* every occurrence of the key in the current text that has a non-word
\* character or the start of the string on its left and a non-word character
\* or the end of the string on its right; "I'm going to the gym ASAP" with
\* {"ASAP": "as soon as possible", "I'm": "I am"} becomes
\* "I am going to the gym as soon as possible".
C3_PassReplacesEveryBoundedOccurrence ==
    \A c \in Callers :
        /\ (frame[c].op = "abbrev" /\ frame[c].pc = "store" /\ abbrev # <<>>
              /\ \E p \in 1..Len(text_with_abbrev.s) :
                    BoundedOccurrenceAt(text_with_abbrev.s, abbrev, p))
              => frame[c].tmp =
                     Str(WholeWordsReplacedFrom(text_with_abbrev.s, abbrev, full_form, 1))
        /\ (Returned(c, "abbrev") /\ abbreviations = ShippedAbbreviations
              /\ frame[c].arg = Str(SampleAbbrevText))
              => frame[c].ret =
                     Str(<<73, 32, 97, 109, 32, 103, 111, 105, 110, 103, 32, 116, 111,
                           32, 116, 104, 101, 32, 103, 121, 109, 32, 97, 115, 32, 115,
                           111, 111, 110, 32, 97, 115, 32, 112, 111, 115, 115, 105, 98,
                           108, 101>>)

IsLetterOrDigit(ch) ==
    \/ ch \in 48..57
    \/ ch \in 65..90
    \/ ch \in 97..122

\* the occurrence of k at p is part of a longer word
EmbeddedAt(s, k, p) ==
    \/ (p > 1 /\ IsLetterOrDigit(s[p - 1]))
    \/ (p + Len(k) - 1 < Len(s) /\ IsLetterOrDigit(s[p + Len(k)]))

\* C4: in the abbreviation expander an occurrence of a key that is right
\* after or right before a letter or digit is never replaced: a text in which
\* every occurrence of every key is embedded like that comes back unchanged
\* ("ASAPX" with key "ASAP" stays "ASAPX"), and so does a text whose only
\* occurrences differ from the key in letter case.
C4_EmbeddedOccurrencesUntouched ==
    \A c \in Callers :
        (Returned(c, "abbrev") /\ ~frame[c].arg.none /\ NonEmptyKeys(abbreviations)
           /\ \A i \in 1..Len(abbreviations) :
                 \A p \in 1..Len(frame[c].arg.s) :
                     OccursAt(frame[c].arg.s, Key(abbreviations[i]), p)
                         => EmbeddedAt(frame[c].arg.s, Key(abbreviations[i]), p))
            => frame[c].ret = frame[c].arg

\* no key of the caller's mapping matches anywhere in T: for convert_to_msa a
\* match is an occurrence of the key, for the abbreviation cell a match of
\* the key's pattern
NoKeyMatches(c) ==
    LET T == frame[c].arg.s
        m == MappingOf(c)
    IN  \A i \in 1..Len(m) :
            IF frame[c].op = "msa"
            THEN ~Contains(T, Key(m[i]))
            ELSE \A p \in 1..(Len(T) + 1) : ~PatternMatchesAt(T, Key(m[i]), p)

HasEmptyKey(m) == \E i \in 1..Len(m) : Key(m[i]) = <<>>

\* C7: a call of the dialect normalizer or of the abbreviation expander with
\* a mapping that holds an empty-string key, or with a None text, ends in an
\* error and never returns a string.
C7_MalformedArgumentsRejected ==
    \A c \in Callers :
        (frame[c].op \in {"msa", "abbrev"}
           /\ (frame[c].arg.none \/ HasEmptyKey(MappingOf(c))))
            => frame[c].pc # "done"

----------------------------------------------------------------------------
(* Properties of concurrent callers, under SpecConc *)

\* what the operation of frame f returns for its argument when it runs alone
AloneResult(f, dm, ab) ==
    CASE f.op = "msa" -> Str(convert_to_msa(f.arg.s, dm))
      [] f.op = "abbrev" -> Str(expand_abbreviations(f.arg.s, ab))
      [] f.op = "clean" -> Str(preprocess_for_sentiment(f.arg.s))
      [] OTHER -> NoneVal

====
